---- MODULE Spec2Model ----
(***************************************************************************)
(* Model of rim_experiments: the Dataset temporal construction             *)
(* (dataset/base.py) and the Experiment orchestrator with its constraint   *)
(* sweep (__init__.py).                                                    *)
(*                                                                         *)
(* Three specifications share the variables of this module:                *)
(*   DatasetSpec  - Dataset.__init__ applied to bounded raw tables;        *)
(*   PlannerSpec  - the multiplier -> configuration rule of _mtch_update;  *)
(*   Spec         - Experiment.__init__, pre-trained model injection and   *)
(*                  Experiment.run, one policy per step.                   *)
(* Identifiers are integers: user ids 1, 2, item ids 10, 20.               *)
(***************************************************************************)
EXTENDS Integers, Sequences, FiniteSets, TLC

VARIABLES
    \* ---- Dataset.__init__ : arguments and result
    event_df,       \* the caller's event table (gets the holdout column in place)
    user_df,        \* the caller's user table: rows [USER_ID, TEST_START_TIME]
    item_df,        \* the caller's item table: sequence of ITEM_ID
    horizon, min_user_len, min_item_len,
    collect_sorts,  \* which groupby_collect the build has (value-sorting or stable)
    dataset,        \* the constructed Dataset, or NoDataset
    dphase,         \* "args" | "built" | "failed" | "idle"
    \* ---- Experiment : arguments, attributes and the position of run()
    D, V,           \* the datasets (their in-test indices and defaults); V may be None
    mult, models_to_run, cvx, online,
    k1, c1,         \* results._k1, results._c1
    item_rec, user_rec, mtch_,   \* the ExperimentResult mappings
    confs,          \* the configurations planned by the last _mtch_update
    memo,           \* cached properties _rnn, _hawkes, _hawkes_poisson and the fits done
    has_pretrain,   \* hasattr(self, '_pretrain_rnn')
    got,            \* policy name -> the shared artifacts its transform received
    calls,          \* how many policy transforms have been invoked
    pos,            \* how many policies run() has completed
    raised,         \* the exception that left the constructor or run(), or "none"
    xphase          \* "new" | "ready" | "failed" | "raised" | "done" | "args" | "planned" | "idle"

dvars == <<event_df, user_df, item_df, horizon, min_user_len, min_item_len,
           collect_sorts, dataset, dphase>>

xvars == <<D, V, mult, models_to_run, cvx, online, k1, c1, item_rec, user_rec, mtch_,
           confs, memo, has_pretrain, got, calls, pos, raised, xphase>>

vars == <<dvars, xvars>>

----------------------------------------------------------------------------
(* Bounds of the model *)
MaxEvents == 2
MaxTime == 3
MaxMult == 2
MaxModels == 3
\* multipliers and capacities are counted in units of 1/Den
Den == 2

(* float("inf"): larger than every finite timestamp of the model *)
Inf == 1000

Users == {1, 2}
Items == {10, 20}
Timestamps == 0..MaxTime
TestStarts == {2, Inf}

SeqsUpTo(S, n) == UNION {[1..k -> S] : k \in 0..n}

Plus(a, b) == IF a >= Inf \/ b >= Inf THEN Inf ELSE a + b
Minus(a, b) == IF a >= Inf THEN Inf ELSE a - b

NoDataset == [none |-> TRUE]
None == [none |-> TRUE]
EmptyDict == [n \in {} |-> None]

----------------------------------------------------------------------------
(* dataset/base.py *)

RawEvents == [USER_ID : Users, ITEM_ID : Items, TIMESTAMP : Timestamps]

\* the raw columns of an event row (the row without any derived column)
Raw(e) == [USER_ID |-> e.USER_ID, ITEM_ID |-> e.ITEM_ID, TIMESTAMP |-> e.TIMESTAMP]

HasDuplicates(ids) == \E i, j \in 1..Len(ids) : i # j /\ ids[i] = ids[j]

UserIndex(udf) == [j \in 1..Len(udf) |-> udf[j].USER_ID]

SeqRange(s) == {s[j] : j \in 1..Len(s)}

\* mutant of _check_inputs: "item_df must include all items" is not asserted
_check_inputs_NoItemCheck(edf, udf, idf) ==
    /\ ~HasDuplicates(UserIndex(udf))
    /\ ~HasDuplicates(idf)
    /\ \A j \in 1..Len(edf) : edf[j].USER_ID \in SeqRange(UserIndex(udf))

\* _check_inputs: the four assertions
_check_inputs(edf, udf, idf) ==
    /\ ~HasDuplicates(UserIndex(udf))
    /\ ~HasDuplicates(idf)
    /\ \A j \in 1..Len(edf) : edf[j].USER_ID \in SeqRange(UserIndex(udf))
    /\ \A j \in 1..Len(edf) : edf[j].ITEM_ID \in SeqRange(idf)

\* user_df['TEST_START_TIME'].reindex(event_df['USER_ID']) for one user id
TestStartOf(udf, u) ==
    LET j == CHOOSE j \in 1..Len(udf) : udf[j].USER_ID = u
    IN udf[j].TEST_START_TIME

\* mutant of IsHoldout: an event exactly at the test start is not holdout
IsHoldout_Strict(test_start, ts) == test_start < ts

IsHoldout(test_start, ts) == test_start <= ts

\* mutant of Retained: an event exactly at the bound is kept
Retained_Inclusive(test_start, ts, hor) == ts <= Plus(test_start, hor)

Retained(test_start, ts, hor) == ts < Plus(test_start, hor)

\* event_df['_holdout'] = ... : the caller's table with the column added
MarkHoldout(edf, udf) ==
    [j \in 1..Len(edf) |->
        [USER_ID |-> edf[j].USER_ID, ITEM_ID |-> edf[j].ITEM_ID,
         TIMESTAMP |-> edf[j].TIMESTAMP,
         holdout |-> IsHoldout(TestStartOf(udf, edf[j].USER_ID), edf[j].TIMESTAMP)]]

\* _holdout_and_trim_events: the returned copy
_holdout_and_trim_events(edf, udf, hor) ==
    SelectSeq(MarkHoldout(edf, udf),
              LAMBDA e : Retained(TestStartOf(udf, e.USER_ID), e.TIMESTAMP, hor))

\* util.groupby_collect on a one-column series indexed by USER_ID, read at
\* one key: the values of that key, in row order or sorted by value
groupby_collect(keys, vals, key, sorts) ==
    LET idx == SelectSeq([j \in 1..Len(keys) |-> j], LAMBDA j : keys[j] = key)
        out == [n \in 1..Len(idx) |-> vals[idx[n]]]
    IN IF sorts THEN SortSeq(out, LAMBDA a, b : a < b) ELSE out

\* fn(col_name) of _augment_user_hist for one user
HistCol(edf, col, u, sorts) ==
    LET train == SelectSeq(edf, LAMBDA e : e.holdout = FALSE)
        keys == [j \in 1..Len(train) |-> train[j].USER_ID]
        vals == [j \in 1..Len(train) |->
                    IF col = "ITEM_ID" THEN train[j].ITEM_ID ELSE train[j].TIMESTAMP]
    IN groupby_collect(keys, vals, u, sorts)

_augment_user_hist(udf, edf, sorts) ==
    [j \in 1..Len(udf) |->
        LET u == udf[j].USER_ID
            hist_items == HistCol(edf, "ITEM_ID", u, sorts)
            hist_ts == HistCol(edf, "TIMESTAMP", u, sorts)
            timestamps == Append(hist_ts, udf[j].TEST_START_TIME)
        IN [USER_ID |-> u, TEST_START_TIME |-> udf[j].TEST_START_TIME,
            hist_items |-> hist_items, timestamps |-> timestamps,
            hist_len |-> Len(hist_items),
            hist_span |-> Minus(timestamps[Len(timestamps)], timestamps[1])]]

_augment_item_hist(idf, edf) ==
    [j \in 1..Len(idf) |->
        [ITEM_ID |-> idf[j],
         hist_len |-> Len(SelectSeq(edf, LAMBDA e :
                            e.holdout = FALSE /\ e.ITEM_ID = idf[j]))]]

\* mutant of UserInTest: training-only users are not excluded
UserInTest_NoInfCheck(hist_len, test_start, min_len) == hist_len >= min_len

UserInTest(hist_len, test_start, min_len) ==
    hist_len >= min_len /\ test_start < Inf

ItemInTest(hist_len, min_len) == hist_len >= min_len

\* int(np.ceil(n / 100))
DefaultTop(n) == (n + 99) \div 100

user_in_test(d) == SelectSeq(d.user_df, LAMBDA r : r.in_test)
item_in_test(d) == SelectSeq(d.item_df, LAMBDA r : r.in_test)

\* Dataset.__init__ after _check_inputs has passed
MakeDataset(edf, udf, idf, hor, mul, mil, sorts) ==
    LET ev == _holdout_and_trim_events(edf, udf, hor)
        us == _augment_user_hist(udf, ev, sorts)
        it == _augment_item_hist(idf, ev)
        us2 == [j \in 1..Len(us) |->
                  [USER_ID |-> us[j].USER_ID,
                   TEST_START_TIME |-> us[j].TEST_START_TIME,
                   hist_items |-> us[j].hist_items, timestamps |-> us[j].timestamps,
                   hist_len |-> us[j].hist_len, hist_span |-> us[j].hist_span,
                   in_test |-> UserInTest(us[j].hist_len, us[j].TEST_START_TIME, mul)]]
        it2 == [j \in 1..Len(it) |->
                  [ITEM_ID |-> it[j].ITEM_ID, hist_len |-> it[j].hist_len,
                   in_test |-> ItemInTest(it[j].hist_len, mil)]]
    IN [event_df |-> ev, user_df |-> us2, item_df |-> it2, horizon |-> hor,
        default_user_rec_top_c |->
            DefaultTop(Len(SelectSeq(us2, LAMBDA r : r.in_test))),
        default_item_rec_top_k |->
            DefaultTop(Len(SelectSeq(it2, LAMBDA r : r.in_test)))]

----------------------------------------------------------------------------
(* DatasetSpec: the caller's tables, then Dataset.__init__ *)

UserTables ==
    {<<[USER_ID |-> 1, TEST_START_TIME |-> t1], [USER_ID |-> 2, TEST_START_TIME |-> t2]>> :
        t1 \in TestStarts, t2 \in TestStarts}
    \cup {<<[USER_ID |-> 1, TEST_START_TIME |-> 2]>>,
          <<[USER_ID |-> 1, TEST_START_TIME |-> 2], [USER_ID |-> 1, TEST_START_TIME |-> 2]>>}

ItemTables == {<<10, 20>>, <<10>>, <<10, 10>>}

\* (horizon, min_user_len, min_item_len)
Params == {<<1, 1, 1>>, <<Inf, 1, 1>>, <<1, 2, 2>>, <<1, 1, 2>>}

ExperimentIdle ==
    /\ D = None /\ V = None
    /\ mult = <<>> /\ models_to_run = <<>> /\ cvx = FALSE /\ online = FALSE
    /\ k1 = 0 /\ c1 = 0
    /\ item_rec = EmptyDict /\ user_rec = EmptyDict /\ mtch_ = EmptyDict
    /\ confs = <<>>
    /\ memo = None /\ has_pretrain = FALSE /\ got = EmptyDict
    /\ calls = 0 /\ pos = 0 /\ raised = "none"
    /\ xphase = "idle"

DatasetInit ==
    /\ ExperimentIdle
    /\ event_df \in SeqsUpTo(RawEvents, MaxEvents)
    /\ user_df \in UserTables
    /\ item_df \in ItemTables
    /\ \E p \in Params : horizon = p[1] /\ min_user_len = p[2] /\ min_item_len = p[3]
    /\ collect_sorts \in BOOLEAN
    /\ dataset = NoDataset
    /\ dphase = "args"

\* Dataset(event_df, user_df, item_df, horizon, min_user_len, min_item_len)
Construct ==
    /\ dphase = "args"
    /\ IF _check_inputs(event_df, user_df, item_df)
         THEN /\ event_df' = MarkHoldout(event_df, user_df)
              /\ dataset' = MakeDataset(event_df, user_df, item_df, horizon,
                                        min_user_len, min_item_len, collect_sorts)
              /\ dphase' = "built"
         ELSE /\ dphase' = "failed"
              /\ UNCHANGED <<event_df, dataset>>
    /\ UNCHANGED <<user_df, item_df, horizon, min_user_len, min_item_len, collect_sorts>>
    /\ UNCHANGED xvars

DatasetNext == Construct

DatasetSpec == DatasetInit /\ [][DatasetNext]_vars

----------------------------------------------------------------------------
(* Properties of the constructed Dataset *)

Built == dphase = "built"

CountOf(s, e) == Cardinality({j \in 1..Len(s) : Raw(s[j]) = e})

InTable(u) == \E j \in 1..Len(user_df) : user_df[j].USER_ID = u

BelowBound(e) ==
    LET ts == TestStartOf(user_df, e.USER_ID)
    IN ts = Inf \/ horizon = Inf \/ e.TIMESTAMP < ts + horizon

\* C2: the constructed event collection holds exactly the input events with
\* timestamp < test_start_time(user) + horizon, each as often as it was supplied;
\* every event at or beyond the bound is absent.
C2_TrimExact ==
    Built => \A e \in RawEvents :
        CountOf(dataset.event_df, e) =
            IF InTable(e.USER_ID) /\ BelowBound(e) THEN CountOf(event_df, e) ELSE 0

C2_Witness ==
    /\ Built
    /\ \E j \in 1..Len(event_df) : ~BelowBound(event_df[j])
    /\ \E j \in 1..Len(event_df) :
          BelowBound(event_df[j]) /\ event_df[j].holdout
    /\ Len(dataset.event_df) < Len(event_df)

\* C3: every event of the constructed dataset is holdout iff its timestamp is
\* at or after its user's test start time (equality counts as holdout).
C3_HoldoutIff ==
    Built => \A j \in 1..Len(dataset.event_df) :
        LET e == dataset.event_df[j]
        IN e.holdout <=> (e.TIMESTAMP >= TestStartOf(user_df, e.USER_ID))

C3_Witness ==
    /\ Built
    /\ \E j \in 1..Len(dataset.event_df) :
          LET e == dataset.event_df[j]
          IN e.TIMESTAMP = TestStartOf(user_df, e.USER_ID) /\ e.holdout
    /\ \E j \in 1..Len(dataset.event_df) : ~dataset.event_df[j].holdout

TrainRowsOfUser(u) ==
    {j \in 1..Len(dataset.event_df) :
        dataset.event_df[j].USER_ID = u /\ ~dataset.event_df[j].holdout}

TrainRowsOfItem(i) ==
    {j \in 1..Len(dataset.event_df) :
        dataset.event_df[j].ITEM_ID = i /\ ~dataset.event_df[j].holdout}

\* C4: a user is in test only if its history length reaches min_user_len and
\* its test start time is finite; an item is in test only if its history
\* length reaches min_item_len; history length is the number of retained
\* non-holdout events of the user or item (0 when there are none).
C4_InTestOnlyIf ==
    Built =>
        /\ \A j \in 1..Len(dataset.user_df) :
              LET r == dataset.user_df[j]
              IN /\ r.hist_len = Cardinality(TrainRowsOfUser(r.USER_ID))
                 /\ r.in_test => (r.hist_len >= min_user_len /\ r.TEST_START_TIME # Inf)
        /\ \A j \in 1..Len(dataset.item_df) :
              LET r == dataset.item_df[j]
              IN /\ r.hist_len = Cardinality(TrainRowsOfItem(r.ITEM_ID))
                 /\ r.in_test => r.hist_len >= min_item_len

C4_Witness ==
    /\ Built
    /\ \E j \in 1..Len(dataset.user_df) :
          LET r == dataset.user_df[j]
          IN r.TEST_START_TIME = Inf /\ r.hist_len >= min_user_len /\ ~r.in_test
    /\ \E j \in 1..Len(dataset.user_df) : dataset.user_df[j].in_test
    /\ \E j \in 1..Len(dataset.item_df) :
          dataset.item_df[j].hist_len = 0 /\ ~dataset.item_df[j].in_test
    /\ \E j \in 1..Len(dataset.item_df) : dataset.item_df[j].in_test

NonDecreasing(s) == \A j \in 1..(Len(s) - 1) : s[j] <= s[j + 1]

Bijections(S, T) == {f \in [S -> T] : \A a, b \in S : a # b => f[a] # f[b]}

\* the history lists the user's retained non-holdout events one by one
Chronological(r) ==
    LET rows == TrainRowsOfUser(r.USER_ID)
    IN /\ Len(r.hist_items) = Cardinality(rows)
       /\ \E p \in Bijections(1..Len(r.hist_items), rows) :
             \A n \in 1..Len(r.hist_items) :
                /\ r.hist_items[n] = dataset.event_df[p[n]].ITEM_ID
                /\ r.timestamps[n] = dataset.event_df[p[n]].TIMESTAMP

\* C5: whatever the order of the input events, every in-test user's
\* hist_timestamps is non-decreasing, has hist_len + 1 elements and ends with
\* the test start time, and hist_items lists the user's non-holdout items in
\* that same chronological order; a user without non-holdout events has
\* hist_items = [] and hist_timestamps = [test_start_time].
C5_HistChronological ==
    Built => \A j \in 1..Len(dataset.user_df) :
        LET r == dataset.user_df[j]
        IN /\ r.in_test =>
                /\ NonDecreasing(r.timestamps)
                /\ Len(r.timestamps) = r.hist_len + 1
                /\ r.timestamps[Len(r.timestamps)] = r.TEST_START_TIME
                /\ Chronological(r)
           /\ TrainRowsOfUser(r.USER_ID) = {} =>
                /\ r.hist_items = <<>>
                /\ r.timestamps = <<r.TEST_START_TIME>>

Max(a, b) == IF a >= b THEN a ELSE b

CeilDiv(n, d) == IF n % d = 0 THEN n \div d ELSE (n \div d) + 1

\* C6: default_item_rec_top_k = max(1, ceil(#in-test items / 100)) and
\* default_user_rec_top_c = max(1, ceil(#in-test users / 100)): both are >= 1
\* for every input, also with no in-test user or no in-test item.
C6_DefaultsAtLeastOne ==
    Built =>
        /\ dataset.default_item_rec_top_k =
              Max(1, CeilDiv(Len(item_in_test(dataset)), 100))
        /\ dataset.default_user_rec_top_c =
              Max(1, CeilDiv(Len(user_in_test(dataset)), 100))
        /\ dataset.default_item_rec_top_k >= 1
        /\ dataset.default_user_rec_top_c >= 1

----------------------------------------------------------------------------
(* __init__.py : the constraint sweep planner of Experiment._mtch_update *)

DatasetIdle ==
    /\ event_df = <<>> /\ user_df = <<>> /\ item_df = <<>>
    /\ horizon = 0 /\ min_user_len = 0 /\ min_item_len = 0
    /\ collect_sorts = FALSE
    /\ dataset = NoDataset
    /\ dphase = "idle"

\* mutant of LessThanOne: the multiplier 1 is read as a lower bound
LessThanOne_Inclusive(m) == m <= Den

\* a multiplier m stands for m / Den: "m < 1"
LessThanOne(m) == m < Den

\* one iteration of "for m in self.mult"; k and c are in units of 1/Den
Conf(m, base_k, base_c) ==
    IF LessThanOne(m)
      THEN [k |-> base_k * Den, c |-> base_c * m, constraint_type |-> "lb"]
      ELSE [k |-> base_k * m, c |-> base_c * Den, constraint_type |-> "ub"]

RECURSIVE Plan(_, _, _)
\* confs = []; for m in self.mult: confs.append(...)
Plan(ms, base_k, base_c) ==
    IF ms = <<>> THEN <<>>
    ELSE Append(Plan(SubSeq(ms, 1, Len(ms) - 1), base_k, base_c),
                Conf(ms[Len(ms)], base_k, base_c))

Mults == 0..(2 * Den)
BaseKs == {0, 1, 5}
BaseCs == {0, 1, 10}

PlannerInit ==
    /\ DatasetIdle
    /\ D = None /\ V = None
    /\ models_to_run = <<>> /\ cvx = FALSE /\ online = FALSE
    /\ item_rec = EmptyDict /\ user_rec = EmptyDict /\ mtch_ = EmptyDict
    /\ memo = None /\ has_pretrain = FALSE /\ got = EmptyDict
    /\ calls = 0 /\ pos = 0 /\ raised = "none"
    /\ confs = <<>>
    /\ mult \in SeqsUpTo(Mults, MaxMult)
    /\ k1 \in BaseKs
    /\ c1 \in BaseCs
    /\ xphase = "args"

\* the planning loop of _mtch_update on (self.mult, self._k1, self._c1)
PlanSweep ==
    /\ xphase = "args"
    /\ confs' = Plan(mult, k1, c1)
    /\ xphase' = "planned"
    /\ UNCHANGED <<D, V, mult, models_to_run, cvx, online, k1, c1, item_rec, user_rec,
                   mtch_, memo, has_pretrain, got, calls, pos, raised>>
    /\ UNCHANGED dvars

PlannerNext == PlanSweep

PlannerSpec == PlannerInit /\ [][PlannerNext]_vars

Planned == xphase = "planned"

\* C1: the planned sequence is as long as the multiplier sequence and its i-th
\* element comes from the i-th multiplier m alone: (base_k, base_c * m, lb) if
\* m < 1, (base_k * m, base_c, ub) if m >= 1; duplicates are kept; m = 1 gives
\* (base_k, base_c, ub), m = 0 gives (base_k, 0, lb), and [0, 2] with
\* base_k = 5, base_c = 10 gives [(5, 0, lb), (10, 10, ub)].
C1_PlanPointwise ==
    Planned =>
        /\ Len(confs) = Len(mult)
        /\ \A i \in 1..Len(mult) :
              LET m == mult[i]
              IN /\ m < Den => confs[i] = [k |-> k1 * Den, c |-> c1 * m,
                                           constraint_type |-> "lb"]
                 /\ m >= Den => confs[i] = [k |-> k1 * m, c |-> c1 * Den,
                                            constraint_type |-> "ub"]
                 /\ m = Den => confs[i] = [k |-> k1 * Den, c |-> c1 * Den,
                                           constraint_type |-> "ub"]
                 /\ m = 0 => confs[i] = [k |-> k1 * Den, c |-> 0,
                                         constraint_type |-> "lb"]
        /\ (mult = <<0, 2 * Den>> /\ k1 = 5 /\ c1 = 10) =>
              confs = <<[k |-> 5 * Den, c |-> 0, constraint_type |-> "lb"],
                        [k |-> 10 * Den, c |-> 10 * Den, constraint_type |-> "ub"]>>

C1_Witness ==
    /\ Planned
    /\ mult = <<0, 2 * Den>> /\ k1 = 5 /\ c1 = 10
    /\ Len(confs) = 2
    /\ confs[1].constraint_type = "lb" /\ confs[2].constraint_type = "ub"

----------------------------------------------------------------------------
(* __init__.py : Experiment *)

\* what the Experiment reads of a Dataset: its in-test indices and defaults
Summary(users, items) ==
    [user_in_test |-> users, item_in_test |-> items,
     default_user_rec_top_c |-> DefaultTop(Cardinality(users)),
     default_item_rec_top_k |-> DefaultTop(Cardinality(items))]

TestDatasets == {Summary({1, 2}, {10, 20}), Summary({1, 2}, {10})}
ValidDatasets == {Summary({1}, {10, 20}), Summary({1}, {10})}

\* the policy names the model runs (a subset of the dispatch of transform)
ModelNames == {"Pop", "Hawkes", "HP", "RNN", "RNN-HP"}

DistinctSeqs(S, n) ==
    {q \in SeqsUpTo(S, n) : \A i, j \in 1..Len(q) : i # j => q[i] # q[j]}

\* the multipliers of the runs: 1/Den (a lower bound) and 2 (an upper bound)
SweepMults == {1, 2 * Den}

\* mutant of OnlineRequirements: "online requires cvx" is not asserted
OnlineRequirements_NoCvxCheck(cvx_, online_, V_) ==
    online_ => V_ # None

\* the asserts of Experiment.__init__
OnlineRequirements(cvx_, online_, V_) ==
    online_ => (cvx_ /\ V_ # None)

Kinds == {"rnn", "hawkes", "hawkes_poisson"}

EmptyMemo ==
    [cache |-> [a \in Kinds |-> None], fits |-> [a \in Kinds |-> 0], value |-> None]

\* self._pretrain_rnn, the model another Experiment has trained
PretrainRnn == [kind |-> "rnn", serial |-> 0, base |-> None]

\* util.cached_property: the body runs on the first access only, its value
\* is kept and returned by every later access
cached_property(c, kind, body) ==
    IF c.cache[kind] # None
      THEN [c EXCEPT !.value = c.cache[kind]]
      ELSE [body EXCEPT !.cache[kind] = body.value]

\* a fit: one more model of that kind is trained
Fit(c, kind, base) ==
    [c EXCEPT !.fits[kind] = @ + 1,
              !.value = [kind |-> kind, serial |-> c.fits[kind] + 1, base |-> base]]

\* mutant of _rnn_body: an injected pre-trained model is ignored
_rnn_body_IgnorePretrain(c, pretrain) == Fit(c, "rnn", None)

\* the body of Experiment._rnn
_rnn_body(c, pretrain) ==
    IF pretrain THEN [c EXCEPT !.value = PretrainRnn] ELSE Fit(c, "rnn", None)

_rnn(c, pretrain) == cached_property(c, "rnn", _rnn_body(c, pretrain))

\* Experiment._hawkes
_hawkes(c) == cached_property(c, "hawkes", Fit(c, "hawkes", None))

\* Experiment._hawkes_poisson: HawkesPoisson(self._hawkes).fit(self.V)
_hawkes_poisson(c) ==
    cached_property(c, "hawkes_poisson",
        LET h == _hawkes(c) IN Fit(h, "hawkes_poisson", h.value))

\* the cached properties Experiment.transform reads for a policy, in order
Artifacts(model) ==
    CASE model = "Hawkes" -> <<"hawkes">>
      [] model = "HP" -> <<"hawkes_poisson">>
      [] model \in {"RNN", "RNN-Pop", "RNN-EMA"} -> <<"rnn">>
      [] model = "RNN-Hawkes" -> <<"rnn", "hawkes">>
      [] model = "RNN-HP" -> <<"rnn", "hawkes_poisson">>
      [] OTHER -> <<>>

Access(c, kind, pretrain) ==
    CASE kind = "rnn" -> _rnn(c, pretrain)
      [] kind = "hawkes" -> _hawkes(c)
      [] kind = "hawkes_poisson" -> _hawkes_poisson(c)

RECURSIVE AccessAll(_, _, _, _)
\* reads the properties of kinds[n..] in order: the memo afterwards and what was received
AccessAll(c, kinds, pretrain, rcv) ==
    IF kinds = <<>> THEN [memo |-> c, rcv |-> rcv]
    ELSE LET c2 == Access(c, Head(kinds), pretrain)
         IN AccessAll(c2, Tail(kinds), pretrain,
                [a \in DOMAIN rcv \cup {Head(kinds)} |->
                    IF a = Head(kinds) THEN c2.value ELSE rcv[a]])

\* Experiment.transform(model, d): the score matrix the policy returns covers
\* the in-test users and items of d
transform(c, model, d, which, pretrain) ==
    LET a == AccessAll(c, Artifacts(model), pretrain, EmptyDict)
    IN [memo |-> a.memo, rcv |-> a.rcv,
        S |-> [policy |-> model, of |-> which,
               rows |-> d.user_in_test, cols |-> d.item_in_test,
               filled_cols |-> {}, fill |-> "none"]]

\* mutant of DatasetTransform: the item axis is not reindexed
DatasetTransform_KeepColumns(d, S, user_index, fill_value) ==
    [policy |-> S.policy, of |-> S.of,
     rows |-> user_index, cols |-> S.cols,
     filled_cols |-> {}, fill |-> fill_value]

\* Dataset.transform(S, user_index, fill_value) of dataset d
DatasetTransform(d, S, user_index, fill_value) ==
    [policy |-> S.policy, of |-> S.of,
     rows |-> user_index, cols |-> d.item_in_test,
     filled_cols |-> d.item_in_test \ S.cols, fill |-> fill_value]

\* mutant of SetItem: the mapping is rebound to the new entry alone
SetItem_Rebind(dict, name, v) == [n \in {name} |-> v]

\* dict[name] = v
SetItem(dict, name, v) ==
    [n \in DOMAIN dict \cup {name} |-> IF n = name THEN v ELSE dict[n]]

\* _argsort(score_mat), the n-th ranking computed within one _mtch_update
Argsort(score_mat, n) == [ranking_of |-> score_mat, call |-> n]

\* mutant of _mtch_update: each record is put in front of the earlier ones
_mtch_update_Prepend(score_mat, valid_mat, name) ==
    LET cs == Plan(mult, k1, c1)
    IN [j \in 1..Len(cs) |->
          LET cf == cs[Len(cs) + 1 - j]
          IN [k |-> cf.k, c |-> cf.c, constraint_type |-> cf.constraint_type,
              score_mat |-> score_mat,
              valid_mat |-> IF cvx THEN valid_mat ELSE None,
              prefix |-> IF cvx THEN <<name, online>> ELSE None,
              argsort_ij |-> IF cvx THEN None ELSE Argsort(score_mat, 1)]]

\* the sweep loop of _mtch_update: one tagged record per configuration;
\* mtch_kw (valid_mat and prefix, or the one argsort_ij) is set before the loop
_mtch_update(score_mat, valid_mat, name) ==
    LET cs == Plan(mult, k1, c1)
    IN [j \in 1..Len(cs) |->
          [k |-> cs[j].k, c |-> cs[j].c, constraint_type |-> cs[j].constraint_type,
           score_mat |-> score_mat,
           valid_mat |-> IF cvx THEN valid_mat ELSE None,
           prefix |-> IF cvx THEN <<name, online>> ELSE None,
           argsort_ij |-> IF cvx THEN None ELSE Argsort(score_mat, 1)]]

\* mutant of metrics_update: when online, the top-line metrics are measured
\* on the validation matrix
metrics_update_ValidTopLine(name, S, T, fail) ==
    LET score_mat == DatasetTransform(D, S, D.user_in_test, "nan")
        valid_mat == IF online THEN DatasetTransform(D, T, V.user_in_test, "zero")
                     ELSE IF cvx THEN score_mat ELSE None
        top_mat == IF online THEN valid_mat ELSE score_mat
        ir == IF fail = "item_rec" THEN item_rec
              ELSE SetItem(item_rec, name, [score_mat |-> top_mat, k |-> k1])
        ur == IF fail \in {"item_rec", "user_rec"} THEN user_rec
              ELSE SetItem(user_rec, name, [score_mat |-> top_mat, c |-> c1])
        mt == IF fail \in {"item_rec", "user_rec", "mtch"} \/ Len(mult) = 0 THEN mtch_
              ELSE SetItem(mtch_, name, _mtch_update(score_mat, valid_mat, name))
    IN [item_rec |-> ir, user_rec |-> ur, mtch_ |-> mt]

\* Experiment.metrics_update(name, S, T), stopped where `fail` says an
\* evaluation raises: the three result mappings afterwards
metrics_update(name, S, T, fail) ==
    LET score_mat == DatasetTransform(D, S, D.user_in_test, "nan")
        valid_mat == IF online THEN DatasetTransform(D, T, V.user_in_test, "zero")
                     ELSE IF cvx THEN score_mat ELSE None
        ir == IF fail = "item_rec" THEN item_rec
              ELSE SetItem(item_rec, name, [score_mat |-> score_mat, k |-> k1])
        ur == IF fail \in {"item_rec", "user_rec"} THEN user_rec
              ELSE SetItem(user_rec, name, [score_mat |-> score_mat, c |-> c1])
        mt == IF fail \in {"item_rec", "user_rec", "mtch"} \/ Len(mult) = 0 THEN mtch_
              ELSE SetItem(mtch_, name, _mtch_update(score_mat, valid_mat, name))
    IN [item_rec |-> ir, user_rec |-> ur, mtch_ |-> mt]

----------------------------------------------------------------------------
(* Spec: an Experiment is constructed, may get a pre-trained model, and runs *)

Init ==
    /\ DatasetIdle
    /\ D = None /\ V = None
    /\ mult = <<>> /\ models_to_run = <<>> /\ cvx = FALSE /\ online = FALSE
    /\ k1 = 0 /\ c1 = 0
    /\ item_rec = EmptyDict /\ user_rec = EmptyDict /\ mtch_ = EmptyDict
    /\ confs = <<>>
    /\ memo = EmptyMemo /\ has_pretrain = FALSE /\ got = EmptyDict
    /\ calls = 0 /\ pos = 0 /\ raised = "none"
    /\ xphase = "new"

\* Experiment(D, V, mult, models_to_run, cvx=..., online=...)
Experiment_init ==
    /\ xphase = "new"
    /\ \E d \in TestDatasets, v \in ValidDatasets \cup {None},
          ms \in SeqsUpTo(SweepMults, MaxMult),
          names \in DistinctSeqs(ModelNames, MaxModels),
          cvx_ \in BOOLEAN, online_ \in BOOLEAN :
          /\ D' = d /\ V' = v /\ mult' = ms /\ models_to_run' = names
          /\ cvx' = cvx_ /\ online' = online_
          /\ IF OnlineRequirements(cvx_, online_, v)
               THEN /\ k1' = d.default_item_rec_top_k
                    /\ c1' = d.default_user_rec_top_c
                    /\ xphase' = "ready"
                    /\ raised' = "none"
               ELSE /\ xphase' = "failed"
                    /\ raised' = "AssertionError"
                    /\ UNCHANGED <<k1, c1>>
    /\ UNCHANGED <<item_rec, user_rec, mtch_, confs, memo, has_pretrain, got, calls, pos>>
    /\ UNCHANGED dvars

\* experiment._pretrain_rnn = other._rnn, before run()
InjectPretrainRnn ==
    /\ xphase = "ready" /\ pos = 0 /\ ~has_pretrain
    /\ has_pretrain' = TRUE
    /\ UNCHANGED <<D, V, mult, models_to_run, cvx, online, k1, c1, item_rec, user_rec,
                   mtch_, confs, memo, got, calls, pos, raised, xphase>>
    /\ UNCHANGED dvars

FailPoints == {"none", "transform", "transform_V", "item_rec", "user_rec", "mtch"}

\* one iteration of the loop of run(); `fail` is where a collaborator raises:
\* the policy's transform of D, its transform of V, or one of the three evaluations
RunPolicy(fail) ==
    /\ xphase = "ready" /\ pos < Len(models_to_run)
    /\ fail = "mtch" => Len(mult) > 0
    /\ fail = "transform_V" => online
    /\ LET model == models_to_run[pos + 1]
           tS == transform(memo, model, D, "D", has_pretrain)
           tT == IF online THEN transform(tS.memo, model, V, "V", has_pretrain)
                 ELSE [memo |-> tS.memo, rcv |-> tS.rcv, S |-> None]
           res == metrics_update(model, tS.S, tT.S, fail)
       IN /\ memo' = IF fail = "transform" THEN tS.memo ELSE tT.memo
          /\ got' = SetItem(got, model,
                        IF online /\ fail # "transform" THEN <<tS.rcv, tT.rcv>>
                        ELSE <<tS.rcv>>)
          /\ calls' = calls + (IF online /\ fail # "transform" THEN 2 ELSE 1)
          /\ IF fail \in {"transform", "transform_V"}
               THEN UNCHANGED <<item_rec, user_rec, mtch_, confs>>
               ELSE /\ item_rec' = res.item_rec
                    /\ user_rec' = res.user_rec
                    /\ mtch_' = res.mtch_
                    /\ confs' = IF fail \in {"item_rec", "user_rec"} \/ Len(mult) = 0
                                  THEN confs ELSE Plan(mult, k1, c1)
          /\ IF fail = "none"
               THEN /\ pos' = pos + 1
                    /\ UNCHANGED <<raised, xphase>>
               ELSE /\ raised' = "PolicyFailure"
                    /\ xphase' = "raised"
                    /\ UNCHANGED pos
    /\ UNCHANGED <<D, V, mult, models_to_run, cvx, online, k1, c1, has_pretrain>>
    /\ UNCHANGED dvars

\* run() returns after the last policy
RunReturn ==
    /\ xphase = "ready" /\ pos = Len(models_to_run)
    /\ xphase' = "done"
    /\ UNCHANGED <<D, V, mult, models_to_run, cvx, online, k1, c1, item_rec, user_rec,
                   mtch_, confs, memo, has_pretrain, got, calls, pos, raised>>
    /\ UNCHANGED dvars

Next ==
    \/ Experiment_init
    \/ InjectPretrainRnn
    \/ \E fail \in FailPoints : RunPolicy(fail)
    \/ RunReturn

Spec == Init /\ [][Next]_vars

----------------------------------------------------------------------------
(* Properties of the Experiment *)

Constructed == xphase \in {"ready", "raised", "done"}

NoResults == item_rec = EmptyDict /\ user_rec = EmptyDict /\ mtch_ = EmptyDict

\* C7: constructing with online and not cvx, or with online and no validation
\* dataset, fails with an assertion before any policy transform is invoked
\* and before any result is recorded.
C7_OnlinePreconditions ==
    (xphase # "new" /\ online /\ (~cvx \/ V = None)) =>
        /\ xphase = "failed"
        /\ raised = "AssertionError"
        /\ calls = 0
        /\ NoResults

C7_Witness ==
    /\ xphase = "failed"
    /\ online /\ ~cvx /\ V # None
    /\ Len(models_to_run) > 0

ItemsDiffer == V # None /\ V.item_in_test # D.item_in_test

\* the policies run() has completed
Completed == {models_to_run[j] : j \in 1..pos}

\* C8 as claimed: in online mode with differing in-test item sets the
\* orchestrator fails instead of completing a policy or recording matching results.
C8_MismatchIsFatal ==
    (Constructed /\ online /\ ItemsDiffer) => (pos = 0 /\ mtch_ = EmptyDict)

\* C8 as amended: in online mode with differing in-test item sets no
\* precondition violation is raised; the validation matrix of every sweep
\* record is the policy's scores on V reindexed to V's in-test users and D's
\* in-test items, the item columns V's matrix lacks filled with 0, and every
\* completed policy has its sweep results when multipliers were given.
C8_MismatchReindexed ==
    (xphase # "new" /\ online /\ cvx /\ ItemsDiffer) =>
        /\ Constructed
        /\ raised # "AssertionError"
        /\ \A n \in DOMAIN mtch_ : \A j \in 1..Len(mtch_[n]) :
              LET vm == mtch_[n][j].valid_mat
              IN /\ vm.of = "V" /\ vm.policy = n
                 /\ vm.rows = V.user_in_test
                 /\ vm.cols = D.item_in_test
                 /\ vm.filled_cols = D.item_in_test \ V.item_in_test
                 /\ vm.fill = "zero"
        /\ Len(mult) > 0 =>
              \A n \in Completed : n \in DOMAIN mtch_ /\ Len(mtch_[n]) = Len(mult)

C8_Witness ==
    /\ Constructed /\ online /\ ItemsDiffer
    /\ pos >= 1
    /\ \E n \in DOMAIN mtch_ : \E j \in 1..Len(mtch_[n]) :
          mtch_[n][j].valid_mat.filled_cols # {}

\* C9: each shared artifact (sequence model, Hawkes model, Hawkes-Poisson
\* model) is fitted at most once, on first access, every policy that requests
\* it receives the one cached instance, and with a pre-trained sequence
\* model injected no sequence model is trained.
C9_SharedArtifactsOnce ==
    Constructed =>
        /\ \A a \in Kinds : memo.fits[a] <= 1
        /\ has_pretrain => memo.fits["rnn"] = 0
        /\ \A a \in Kinds :
              memo.cache[a] # None =>
                 IF a = "rnn" /\ has_pretrain THEN memo.cache[a] = PretrainRnn
                 ELSE memo.fits[a] = 1 /\ memo.cache[a].serial = 1
        /\ memo.cache["hawkes_poisson"] # None =>
              memo.cache["hawkes_poisson"].base = memo.cache["hawkes"]
        /\ \A n \in DOMAIN got : \A j \in 1..Len(got[n]) :
              /\ DOMAIN got[n][j] = SeqRange(Artifacts(n))
              /\ \A a \in DOMAIN got[n][j] : got[n][j][a] = memo.cache[a]

Receivers(a) == {n \in DOMAIN got : a \in DOMAIN got[n][1]}

C9_Witness ==
    /\ Constructed /\ has_pretrain
    /\ Cardinality(Receivers("rnn")) >= 2
    /\ Cardinality(Receivers("hawkes_poisson")) >= 2
    /\ memo.fits = [a \in Kinds |-> IF a = "rnn" THEN 0 ELSE 1]

\* C10: when a policy's transform or evaluation fails during run(), the
\* failure leaves run() (it is not swallowed, the loop stops) and the
\* top-line metrics and sweep results of every policy completed earlier are
\* still present and unchanged.
C10_FailureKeepsResults ==
    [][(xphase = "ready" /\ xphase' = "raised") =>
          /\ raised' = "PolicyFailure"
          /\ pos' = pos
          /\ \A n \in Completed :
                /\ n \in DOMAIN item_rec /\ n \in DOMAIN item_rec'
                /\ item_rec'[n] = item_rec[n]
                /\ n \in DOMAIN user_rec /\ n \in DOMAIN user_rec'
                /\ user_rec'[n] = user_rec[n]
                /\ Len(mult) > 0 =>
                      /\ n \in DOMAIN mtch_ /\ n \in DOMAIN mtch_'
                      /\ mtch_'[n] = mtch_[n]]_vars

C10_Witness ==
    /\ xphase = "raised" /\ raised = "PolicyFailure"
    /\ pos >= 1 /\ Len(mult) > 0
    /\ \A n \in Completed :
          n \in DOMAIN item_rec /\ n \in DOMAIN user_rec /\ n \in DOMAIN mtch_
    /\ models_to_run[pos + 1] \in DOMAIN item_rec
    /\ models_to_run[pos + 1] \notin DOMAIN user_rec

----------------------------------------------------------------------------
(* Properties of a refused Dataset construction *)

UserIds == {user_df[j].USER_ID : j \in 1..Len(user_df)}
ItemIds == {item_df[j] : j \in 1..Len(item_df)}

DuplicateUser == Cardinality(UserIds) < Len(user_df)
DuplicateItem == Cardinality(ItemIds) < Len(item_df)
UnknownUser == \E j \in 1..Len(event_df) : event_df[j].USER_ID \notin UserIds
UnknownItem == \E j \in 1..Len(event_df) : event_df[j].ITEM_ID \notin ItemIds

SchemaViolation == DuplicateUser \/ DuplicateItem \/ UnknownUser \/ UnknownItem

\* C11: construction with a duplicate user_id, a duplicate item_id, or an
\* event whose user or item is missing from its table fails before any
\* derived field is computed: the caller's event table has no holdout column,
\* the caller's user and item tables carry no history or in_test field, and
\* no Dataset is produced.
C11_SchemaViolationAborts ==
    (dphase \in {"built", "failed"} /\ SchemaViolation) =>
        /\ dphase = "failed"
        /\ dataset = NoDataset
        /\ \A j \in 1..Len(event_df) : event_df[j] \in RawEvents
        /\ \A j \in 1..Len(user_df) :
              DOMAIN user_df[j] = {"USER_ID", "TEST_START_TIME"}
        /\ \A j \in 1..Len(item_df) : item_df[j] \in Items

C11_Witness ==
    /\ dphase = "failed"
    /\ UnknownItem /\ ~DuplicateUser /\ ~DuplicateItem /\ ~UnknownUser
    /\ Len(event_df) = MaxEvents

----------------------------------------------------------------------------
(* Properties of the recorded results *)

\* the policy's scores on D, on D's in-test users and items
LiveMat(n) ==
    [policy |-> n, of |-> "D", rows |-> D.user_in_test, cols |-> D.item_in_test,
     filled_cols |-> {}, fill |-> "nan"]

\* C12: for every policy and every (cvx, online) the top-line item-rec and
\* user-rec metrics are measured on the live score matrix at the default k
\* and c; every sweep record scores on the live matrix; the validation
\* matrix (scores on V) appears only in the sweep and only when online; with
\* cvx and not online the sweep's validation matrix is the live matrix; with
\* not cvx no validation matrix is passed and all records of a policy share
\* the one ranking of the live matrix.
C12_LiveAndValidationMatrices ==
    Constructed =>
        /\ \A n \in DOMAIN item_rec :
              item_rec[n].score_mat = LiveMat(n) /\ item_rec[n].k = k1
        /\ \A n \in DOMAIN user_rec :
              user_rec[n].score_mat = LiveMat(n) /\ user_rec[n].c = c1
        /\ \A n \in DOMAIN mtch_ : \A j \in 1..Len(mtch_[n]) :
              LET r == mtch_[n][j]
              IN /\ r.score_mat = LiveMat(n)
                 /\ (cvx /\ online) =>
                       /\ r.valid_mat # None
                       /\ r.valid_mat.of = "V" /\ r.valid_mat.policy = n
                       /\ r.argsort_ij = None
                 /\ (cvx /\ ~online) =>
                       /\ r.valid_mat = LiveMat(n)
                       /\ r.argsort_ij = None
                 /\ ~cvx =>
                       /\ r.valid_mat = None
                       /\ r.argsort_ij.ranking_of = LiveMat(n)
                       /\ r.argsort_ij = mtch_[n][1].argsort_ij
                 /\ ~online => (r.valid_mat = None \/ r.valid_mat.of = "D")

C12_Witness ==
    /\ Constructed /\ cvx /\ online /\ pos >= 2
    /\ \A n \in Completed :
          /\ n \in DOMAIN mtch_ /\ Len(mtch_[n]) = MaxMult
          /\ mtch_[n][1].valid_mat.of = "V"
          /\ item_rec[n].score_mat.of = "D"

\* the configuration the i-th multiplier stands for (k and c in units of 1/Den)
ExpectedK(i) == IF mult[i] < Den THEN k1 * Den ELSE k1 * mult[i]
ExpectedC(i) == IF mult[i] < Den THEN c1 * mult[i] ELSE c1 * Den

\* the policies run() has started, in the caller's order
Started == {models_to_run[j] : j \in 1..(IF xphase = "raised" THEN pos + 1 ELSE pos)}

\* C13: run() takes the policies in the caller's order and records a
\* policy's top-line metrics before its sweep; a completed policy has a
\* sweep entry iff the multiplier list is non-empty, and an entry holds one
\* record per planned configuration, in planned order, the i-th tagged with
\* the k and c of the i-th configuration.
C13_OrderAndSweepEntries ==
    Constructed =>
        /\ Completed \subseteq DOMAIN item_rec
        /\ DOMAIN item_rec \subseteq Started
        /\ DOMAIN got = Started
        /\ DOMAIN mtch_ \subseteq DOMAIN user_rec
        /\ DOMAIN user_rec \subseteq DOMAIN item_rec
        /\ \A n \in Completed :
              n \in DOMAIN user_rec /\ (n \in DOMAIN mtch_ <=> Len(mult) > 0)
        /\ DOMAIN mtch_ # {} => Len(mult) > 0
        /\ \A n \in DOMAIN mtch_ :
              /\ Len(mtch_[n]) = Len(mult)
              /\ \A i \in 1..Len(mult) :
                    /\ mtch_[n][i].k = ExpectedK(i)
                    /\ mtch_[n][i].c = ExpectedC(i)
                    /\ mtch_[n][i].constraint_type =
                          (IF mult[i] < Den THEN "lb" ELSE "ub")

C13_Witness ==
    /\ xphase = "raised" /\ pos >= 1
    /\ Len(mult) = 2 /\ mult[1] # mult[2]
    /\ Completed \subseteq DOMAIN mtch_
    /\ models_to_run[pos + 1] \in DOMAIN user_rec
    /\ models_to_run[pos + 1] \notin DOMAIN mtch_

====
